---------------------------- MODULE Spec2Model ----------------------------
(***************************************************************************)
(* Quote-request lifecycle of go_plata_task_v2: the request store          *)
(* (internal/database), the background worker (internal/worker), the rate  *)
(* source (internal/external) and the rate arithmetic (internal/utils).    *)
(*                                                                         *)
(* Every SQL statement, the HTTP call of the rate source and every channel *)
(* operation of the worker is one atomic step; goroutines interleave       *)
(* between such steps.  A float64 is modelled as an exact rational <<n, d>> *)
(* in lowest terms, d > 0, or as <<1, 0>> (+Inf), <<-1, 0>> (-Inf) and     *)
(* <<0, 0>> (NaN); a stored rate is the DECIMAL(20,8) value the quotes     *)
(* table keeps.                                                            *)
(***************************************************************************)
EXTENDS Integers, Sequences, FiniteSets, TLC

(***************************************************************************)
(* Bounds of the model.                                                    *)
(***************************************************************************)
\* Number of calls of CreateOrGetPendingQuoteRequest (one per HTTP request).
NClients == 2
\* Number of store statements that may fail with a database error.
MaxFaults == 1
\* Number of callers of Worker.Stop.
NStops == 1
\* Number of direct calls of the methods of database.DB.
MaxStoreCalls == 3
\* Number of ticks the ticker delivers to w.ticker.C: with every caller,
\* and with a shutdown.
MaxTicks == 1
MaxTicksShutdown == 2

(***************************************************************************)
(* Program constants.                                                      *)
(***************************************************************************)
USD == "USD"
EUR == "EUR"
MXN == "MXN"
SupportedCurrencies == {USD, EUR, MXN}
\* rate DECIMAL(20,8): digits kept after the decimal point.
RateScale == 8

Clients == 1..NClients
Stoppers == 1..NStops

\* The pairs the callers ask for (from # to, both supported).
RequestPairs == {<<EUR, MXN>>, <<USD, EUR>>}

\* The rates relative to USD the upstream API may report for a currency
\* (0.85 for EUR, 18.5 for MXN).
UpstreamRates(c) == IF c = EUR THEN {<<17, 20>>} ELSE {<<37, 2>>}

(***************************************************************************)
(* Rational arithmetic standing for float64.                               *)
(***************************************************************************)
Abs(n) == IF n < 0 THEN -n ELSE n

RECURSIVE GCD(_, _)
GCD(a, b) == IF b = 0 THEN a ELSE GCD(b, a % b)

\* n/d in lowest terms with a positive denominator (d # 0).
Rat(n, d) ==
    LET g == GCD(Abs(n), Abs(d))
        s == IF d < 0 THEN -1 ELSE 1
    IN  <<(s * n) \div g, (s * d) \div g>>

One == <<1, 1>>
NaN == <<0, 0>>
PosInf == <<1, 0>>
NegInf == <<-1, 0>>

\* float64 division x / y of finite values: a zero divisor gives NaN or an
\* infinity, never a panic.
FloatDiv(x, y) ==
    IF y[1] = 0
    THEN IF x[1] = 0 THEN NaN ELSE IF x[1] > 0 THEN PosInf ELSE NegInf
    ELSE Rat(x[1] * y[2], x[2] * y[1])

RECURSIVE Pow10(_)
Pow10(k) == IF k = 0 THEN 1 ELSE 10 * Pow10(k - 1)

\* The first k decimal digits of r/d (0 <= r < d), as an integer.
RECURSIVE FracDigits(_, _, _)
FracDigits(r, d, k) ==
    IF k = 0 THEN 0
    ELSE ((r * 10) \div d) * Pow10(k - 1) + FracDigits((r * 10) % d, d, k - 1)

\* What is left of r/d after k decimal digits, as a numerator over d.
RECURSIVE FracRest(_, _, _)
FracRest(r, d, k) ==
    IF k = 0 THEN r ELSE FracRest((r * 10) % d, d, k - 1)


\* The value a DECIMAL(20,8) column keeps for a finite rate: rounded half
\* away from zero to RateScale digits.
NumericOf(v) ==
    LET a    == Abs(v[1])
        d    == v[2]
        w    == a \div d
        r    == a % d
        f    == FracDigits(r, d, RateScale)
        up   == 2 * FracRest(r, d, RateScale) >= d
        f2   == IF up THEN f + 1 ELSE f
        c    == f2 = Pow10(RateScale)
        wh   == IF c THEN w + 1 ELSE w
        fr   == IF c THEN 0 ELSE f2
    IN  [nan |-> FALSE, neg |-> v[1] < 0 /\ (wh # 0 \/ fr # 0),
         whole |-> wh, frac |-> fr]

\* What the rate column holds after a write of `rate`: NaN is a NUMERIC value.
StoredRate(rate) ==
    IF rate = NaN THEN [nan |-> TRUE, neg |-> FALSE, whole |-> 0, frac |-> 0]
    ELSE NumericOf(rate)

\* A NUMERIC(20,8) column holds no infinity: the statement fails.
RateStorable(rate) == rate \notin {PosInf, NegInf}

(***************************************************************************)
(* Rate arithmetic.                                                        *)
(***************************************************************************)
\* CalculateExchangeRate with the quotient upside down.
CalculateInverseRate(from, to, usdRates) ==
    IF from \notin DOMAIN usdRates THEN [err |-> TRUE, rate |-> <<0, 1>>]
    ELSE IF to \notin DOMAIN usdRates THEN [err |-> TRUE, rate |-> <<0, 1>>]
    ELSE [err |-> FALSE, rate |-> FloatDiv(usdRates[from], usdRates[to])]

\* CalculateExchangeRate that takes 1.0 for a code the table lacks.
CalculateWithDefaultRate(from, to, usdRates) ==
    LET fromRate == IF from \in DOMAIN usdRates THEN usdRates[from] ELSE One
        toRate   == IF to \in DOMAIN usdRates THEN usdRates[to] ELSE One
    IN  [err |-> FALSE, rate |-> FloatDiv(toRate, fromRate)]

\* CalculateExchangeRate: [err, rate]; usdRates is a function from the
\* currencies it holds to their rates.
CalculateExchangeRate(from, to, usdRates) ==
    IF from \notin DOMAIN usdRates THEN [err |-> TRUE, rate |-> <<0, 1>>]
    ELSE IF to \notin DOMAIN usdRates THEN [err |-> TRUE, rate |-> <<0, 1>>]
    ELSE LET fromRate == usdRates[from]
             toRate   == usdRates[to]
         IN  IF from = USD THEN [err |-> FALSE, rate |-> toRate]
             ELSE IF to = USD THEN [err |-> FALSE, rate |-> FloatDiv(One, fromRate)]
             ELSE [err |-> FALSE, rate |-> FloatDiv(toRate, fromRate)]

(***************************************************************************)
(* State.                                                                  *)
(***************************************************************************)
VARIABLES
    now,            \* time.Now(): a clock that has moved on at every INSERT
    faults,         \* database errors injected so far
    quote_requests, \* table quote_requests: id -> row
    quotes,         \* table quotes: id -> row
    cpc,            \* position of each caller of CreateOrGetPendingQuoteRequest
    cargs,          \* its arguments <<from, to>>
    existingRequest,\* its existingRequest: an id, or 0 for none
    cret,           \* what its last call returned
    wpc,            \* position of the two goroutines of Worker.Start
    requests,       \* requests of processPendingRequests, per goroutine
    usdRates,       \* result of GetMultipleExchangeRates, per goroutine
    currencyPairMap,\* keys of currencyPairMap still to be ranged over
    pair,           \* the key processCurrencyPairWithRates is working on
    idx,            \* index of the running `for _, req := range requests`
    upsertFailed,   \* history: the pairs whose UpsertQuote failed in the cycle
    rateCalls,      \* history: the currencies passed to GetMultipleExchangeRates,
                    \* one entry per call of the cycle
    finished,       \* history: ids of the requests discovered by the cycles
                    \* that have returned
    listErr,        \* err of `requests, err := w.db.GetPendingQuoteRequests()`
                    \* is not nil, per goroutine
    tickerC,        \* ticks buffered in w.ticker.C (capacity 1)
    ticks,          \* ticks delivered to w.ticker.C so far
    tickerStopped,  \* w.ticker.Stop() was called
    ctxDone,        \* ctx is cancelled
    spc,            \* position of each caller of Worker.Stop
    last,           \* the last direct call of a method of database.DB and
                    \* what it returned
    exchange,       \* a call of CalculateExchangeRate: its arguments and,
                    \* once it has returned, its results
    http            \* the HTTP request a handler serves or served last: its
                    \* input, the store methods called and the answer

storeVars  == <<now, faults, quote_requests, quotes>>
clientVars == <<cpc, cargs, existingRequest, cret>>
cycleVars  == <<requests, usdRates, currencyPairMap, pair, idx, upsertFailed,
               rateCalls, finished, listErr>>
schedVars  == <<tickerC, ticks, tickerStopped, ctxDone, spc>>
vars == <<now, faults, quote_requests, quotes, cpc, cargs, existingRequest, cret,
          wpc, requests, usdRates, currencyPairMap, pair, idx, upsertFailed,
          rateCalls, finished, listErr,
          tickerC, ticks, tickerStopped, ctxDone, spc, last, exchange, http>>

NoPair == <<"", "">>
NoRates == [err |-> FALSE, rates |-> <<>>]
NoReturn == [err |-> "none", id |-> 0]
NoCalc == [from |-> "", to |-> "", usdRates |-> <<>>, returned |-> FALSE,
           err |-> FALSE, rate |-> <<0, 1>>]
NoCall == [n |-> 0, op |-> "", id |-> 0, from |-> "", to |-> "", status |-> "",
           rate |-> <<>>, err |-> "none", out |-> <<>>]
NoHttp == [op |-> "", pc |-> "idle", id |-> 0, reqFrom |-> <<>>,
           reqTo |-> <<>>, from |-> "", to |-> "", status |-> "", err |-> "none",
           code |-> 0, calls |-> <<>>, quote |-> <<>>]

(***************************************************************************)
(* Request store: the statements of internal/database.                     *)
(***************************************************************************)
\* A statement may fail with a database error (connection lost, timeout).
CanFault == faults < MaxFaults

\* Ids of the rows `WHERE from_currency = .. AND to_currency = .. AND
\* status = 'pending'` selects.
PendingByPair(from, to) ==
    {id \in DOMAIN quote_requests :
        /\ quote_requests[id].from = from
        /\ quote_requests[id].to = to
        /\ quote_requests[id].status = "pending"}

\* A store without idx_pending_quote_requests: no INSERT ever conflicts.
NoPendingIndex(from, to) == FALSE

\* idx_pending_quote_requests: an INSERT of a pending row for (from, to)
\* conflicts when a pending row for the pair exists.
PendingIndexConflict(from, to) == PendingByPair(from, to) # {}

\* generateID: the clock in nanoseconds, as a string of digits.  Successive
\* INSERTs read distinct, increasing values of it.
generateID == now

\* Outcome of the INSERT of CreateQuoteRequest, database error aside.
InsertOutcome(id, from, to) ==
    IF id \in DOMAIN quote_requests THEN "pk_violation"
    ELSE IF PendingIndexConflict(from, to) THEN "unique_violation"
    ELSE "ok"

\* quote_requests after the INSERT succeeded.
InsertRequest(id, from, to) ==
    [i \in DOMAIN quote_requests \cup {id} |->
        IF i = id
        THEN [from |-> from, to |-> to, status |-> "pending",
              created_at |-> now, updated_at |-> now]
        ELSE quote_requests[i]]

\* quote_requests after `UPDATE quote_requests SET status, updated_at WHERE
\* id`: no row matched is no error.
UpdateStatus(id, status) ==
    [i \in DOMAIN quote_requests |->
        IF i = id
        THEN [quote_requests[i] EXCEPT !.status = status, !.updated_at = now]
        ELSE quote_requests[i]]

\* quote_requests after `UPDATE quote_requests SET updated_at WHERE id`.
TouchRequest(id) ==
    [i \in DOMAIN quote_requests |->
        IF i = id
        THEN [quote_requests[i] EXCEPT !.updated_at = now]
        ELSE quote_requests[i]]

\* Ids of the rows of quotes for (from, to).
QuotesOfPair(from, to) ==
    {id \in DOMAIN quotes : quotes[id].from = from /\ quotes[id].to = to}

\* A table quotes whose INSERT never takes the ON CONFLICT branch.
NoQuoteConflict(from, to) == FALSE

\* UNIQUE(from_currency, to_currency), the conflict target of UpsertQuote:
\* the INSERT conflicts when a row for the pair exists.
QuoteConflict(from, to) == QuotesOfPair(from, to) # {}

\* Outcome of the INSERT .. ON CONFLICT of UpsertQuote, database error aside.
UpsertOutcome(from, to, rate) ==
    IF ~RateStorable(rate) THEN "numeric_overflow"
    ELSE IF QuoteConflict(from, to) THEN "ok"
    ELSE IF generateID \in DOMAIN quotes THEN "pk_violation"
    ELSE "ok"

\* The clock after a statement that inserted a row.
ClockAfterInsert == now + 1

\* quotes after the upsert succeeded: DO UPDATE SET rate, updated_at on the
\* row of the pair, which keeps its id and created_at; without a conflict a
\* new row with a generated id.
UpsertQuote(from, to, rate) ==
    IF QuoteConflict(from, to)
    THEN [i \in DOMAIN quotes |->
            IF i \in QuotesOfPair(from, to)
            THEN [quotes[i] EXCEPT !.rate = StoredRate(rate), !.updated_at = now]
            ELSE quotes[i]]
    ELSE [i \in DOMAIN quotes \cup {generateID} |->
            IF i = generateID
            THEN [from |-> from, to |-> to, rate |-> StoredRate(rate),
                  created_at |-> now, updated_at |-> now]
            ELSE quotes[i]]

\* Ids in `ORDER BY created_at DESC` order.
RECURSIVE OrderByCreatedAtDesc(_)
OrderByCreatedAtDesc(S) ==
    IF S = {} THEN <<>>
    ELSE LET newest == CHOOSE i \in S : \A j \in S :
                           quote_requests[i].created_at >= quote_requests[j].created_at
         IN  <<newest>> \o OrderByCreatedAtDesc(S \ {newest})

\* Ids in `ORDER BY created_at ASC` order.
RECURSIVE OrderByCreatedAt(_)
OrderByCreatedAt(S) ==
    IF S = {} THEN <<>>
    ELSE LET first == CHOOSE i \in S : \A j \in S :
                          quote_requests[i].created_at <= quote_requests[j].created_at
         IN  <<first>> \o OrderByCreatedAt(S \ {first})

\* A listing without `WHERE status = 'pending'`.
GetQuoteRequestsOfAnyStatus ==
    LET ids == OrderByCreatedAt(DOMAIN quote_requests)
    IN  [k \in 1..Len(ids) |->
            [ID |-> ids[k], From |-> quote_requests[ids[k]].from,
             To |-> quote_requests[ids[k]].to]]

\* Rows of GetPendingQuoteRequests: status = 'pending', oldest first.
GetPendingQuoteRequests ==
    LET ids == OrderByCreatedAt(
                   {i \in DOMAIN quote_requests : quote_requests[i].status = "pending"})
    IN  [k \in 1..Len(ids) |->
            [ID |-> ids[k], From |-> quote_requests[ids[k]].from,
             To |-> quote_requests[ids[k]].to]]

(***************************************************************************)
(* Initial state: an empty database (database.New), a worker that was      *)
(* built (worker.New) and not started, no call in progress.                *)
(***************************************************************************)
Threads == {"first", "loop"}

\* A goroutine panicked (assignment to entry in nil map): nothing recovers,
\* the runtime ends the process and every goroutine with it.
Crashed == \E t \in Threads : wpc[t] = "panic"

InitService ==
    /\ now = 1
    /\ faults = 0
    /\ quote_requests = <<>>
    /\ quotes = <<>>
    /\ cpc = [c \in Clients |-> "idle"]
    /\ cargs = [c \in Clients |-> NoPair]
    /\ existingRequest = [c \in Clients |-> 0]
    /\ cret = [c \in Clients |-> NoReturn]
    /\ wpc = [t \in Threads |-> "unspawned"]
    /\ requests = [t \in Threads |-> <<>>]
    /\ usdRates = [t \in Threads |-> NoRates]
    /\ currencyPairMap = [t \in Threads |-> {}]
    /\ pair = [t \in Threads |-> NoPair]
    /\ idx = [t \in Threads |-> 1]
    /\ upsertFailed = [t \in Threads |-> {}]
    /\ rateCalls = [t \in Threads |-> <<>>]
    /\ finished = {}
    /\ listErr = [t \in Threads |-> FALSE]
    /\ tickerC = 0
    /\ ticks = 0
    /\ tickerStopped = FALSE
    /\ ctxDone = FALSE
    /\ spc = [s \in Stoppers |-> "idle"]
    /\ last = NoCall
    /\ http = NoHttp

Init ==
    /\ InitService
    /\ exchange = NoCalc

(***************************************************************************)
(* CreateOrGetPendingQuoteRequest, one caller c.                           *)
(***************************************************************************)
\* db.GetPendingQuoteRequestByPair(from, to): the SELECT.  A database error
\* is `err != nil`, and the caller goes on to create.
GetPendingQuoteRequestByPair(c, from, to) ==
    /\ ~Crashed
    /\ cpc[c] = "idle"
    /\ cargs' = [cargs EXCEPT ![c] = <<from, to>>]
    /\ cret' = [cret EXCEPT ![c] = NoReturn]
    /\ \/ /\ \E id \in PendingByPair(from, to) :
                existingRequest' = [existingRequest EXCEPT ![c] = id]
          /\ cpc' = [cpc EXCEPT ![c] = "refresh"]
          /\ UNCHANGED faults
       \/ /\ PendingByPair(from, to) = {}
          /\ existingRequest' = [existingRequest EXCEPT ![c] = 0]
          /\ cpc' = [cpc EXCEPT ![c] = "create"]
          /\ UNCHANGED faults
       \/ /\ CanFault
          /\ faults' = faults + 1
          /\ existingRequest' = [existingRequest EXCEPT ![c] = 0]
          /\ cpc' = [cpc EXCEPT ![c] = "create"]
    /\ UNCHANGED <<now, quote_requests, quotes, wpc, cycleVars, schedVars, last, exchange>>

\* The UPDATE of updated_at on the existing pending request; its failure is
\* logged, and the request read by the SELECT is returned either way.
RefreshExisting(c) ==
    /\ ~Crashed
    /\ cpc[c] = "refresh"
    /\ \/ /\ quote_requests' = TouchRequest(existingRequest[c])
          /\ UNCHANGED faults
       \/ /\ CanFault
          /\ faults' = faults + 1
          /\ UNCHANGED quote_requests
    /\ cret' = [cret EXCEPT ![c] = [err |-> "none", id |-> existingRequest[c]]]
    /\ cpc' = [cpc EXCEPT ![c] = "done"]
    /\ UNCHANGED <<now, quotes, cargs, existingRequest, wpc, cycleVars, schedVars, last, exchange, http>>

\* db.CreateQuoteRequest(from, to): the INSERT.
CreateQuoteRequest(c) ==
    /\ ~Crashed
    /\ cpc[c] = "create"
    /\ LET from == cargs[c][1]
           to   == cargs[c][2]
           id   == generateID
           out  == InsertOutcome(id, from, to)
       IN  \/ /\ out = "ok"
              /\ quote_requests' = InsertRequest(id, from, to)
              /\ now' = ClockAfterInsert
              /\ cret' = [cret EXCEPT ![c] = [err |-> "none", id |-> id]]
              /\ UNCHANGED faults
           \/ /\ out # "ok"
              /\ cret' = [cret EXCEPT ![c] = [err |-> out, id |-> 0]]
              /\ UNCHANGED <<now, faults, quote_requests>>
           \/ /\ CanFault
              /\ faults' = faults + 1
              /\ cret' = [cret EXCEPT ![c] = [err |-> "db_error", id |-> 0]]
              /\ UNCHANGED <<now, quote_requests>>
    /\ cpc' = [cpc EXCEPT ![c] = "done"]
    /\ UNCHANGED <<quotes, cargs, existingRequest, wpc, cycleVars, schedVars, last, exchange, http>>

(***************************************************************************)
(* Rate source: GetMultipleExchangeRates.                                  *)
(***************************************************************************)
\* extractUniqueCurrencies that collects req.From only.
extractFromCurrencies(reqs) ==
    {reqs[k].From : k \in 1..Len(reqs)}

\* extractUniqueCurrencies(requests): the keys of the map currencies.
extractUniqueCurrencies(reqs) ==
    {reqs[k].From : k \in 1..Len(reqs)} \cup {reqs[k].To : k \in 1..Len(reqs)}

\* The symbols of the request URL: USD is the base, not a symbol.
Symbols(currencies) == currencies \ {USD}

\* apiResp.Rates["USD"] = 1.0 on the decoded rates.
WithUSD(rates) ==
    [c \in DOMAIN rates \cup {USD} |-> IF c = USD THEN One ELSE rates[c]]

\* The rates of a decoded response with success = true: a rate for any part
\* of the symbols asked, with or without an entry for the base USD.
RateTablesOf(currencies, rates) ==
    UNION {{f \in [S -> UNION {rates[c] : c \in S}] :
               \A c \in S : f[c] \in rates[c]} :
           S \in SUBSET (Symbols(currencies) \cup {USD})}

\* The tables of a Rate Source that reports the market's rates.
RateTables(currencies) ==
    RateTablesOf(currencies, [c \in SupportedCurrencies |-> UpstreamRates(c)])

\* The tables of a Rate Source that may also report a zero or a negative
\* number for a currency: json.Unmarshal accepts any number as a float64.
AnyRates(c) == UpstreamRates(c) \cup {Rat(0, 1), Rat(-1, 2)}

AnyRateTables(currencies) ==
    RateTablesOf(currencies, [c \in SupportedCurrencies |-> AnyRates(c)])


(***************************************************************************)
(* processPendingRequests, run by goroutine t.                             *)
(***************************************************************************)
\* A cycle is in flight in goroutine t.
InCycle(t) ==
    wpc[t] \in {"list", "fetch", "do", "markfailed", "range", "processing",
                "upsert", "failed", "completed", "return"}

\* A listing that goes on to the Rate Source call even with no request.
ListPendingNoEmptyReturn(t) ==
    /\ wpc[t] = "list"
    /\ requests' = [requests EXCEPT ![t] = GetPendingQuoteRequests]
    /\ wpc' = [wpc EXCEPT ![t] = "fetch"]
    /\ UNCHANGED <<storeVars, clientVars, usdRates, currencyPairMap, pair, idx,
                   upsertFailed, rateCalls, finished, listErr, schedVars, last, exchange, http>>

\* A listing whose error is logged without a return: the cycle goes on.
ListPendingLogOnly(t) ==
    /\ wpc[t] = "list"
    /\ \/ /\ requests' = [requests EXCEPT ![t] = GetPendingQuoteRequests]
          /\ wpc' = [wpc EXCEPT ![t] =
                        IF Len(GetPendingQuoteRequests) = 0 THEN "return" ELSE "fetch"]
          /\ UNCHANGED <<faults, listErr>>
       \/ /\ CanFault
          /\ faults' = faults + 1
          /\ listErr' = [listErr EXCEPT ![t] = TRUE]
          /\ wpc' = [wpc EXCEPT ![t] = "fetch"]
          /\ UNCHANGED requests
    /\ UNCHANGED <<now, quote_requests, quotes, clientVars, usdRates,
                   currencyPairMap, pair, idx, upsertFailed, rateCalls, finished,
                   schedVars, last, exchange, http>>

\* requests, err := w.db.GetPendingQuoteRequests(); an error or an empty
\* result ends the cycle.
ListPending(t) ==
    /\ wpc[t] = "list"
    /\ \/ /\ requests' = [requests EXCEPT ![t] = GetPendingQuoteRequests]
          /\ wpc' = [wpc EXCEPT ![t] =
                        IF Len(GetPendingQuoteRequests) = 0 THEN "return" ELSE "fetch"]
          /\ UNCHANGED <<faults, listErr>>
       \/ /\ CanFault
          /\ faults' = faults + 1
          /\ listErr' = [listErr EXCEPT ![t] = TRUE]
          /\ wpc' = [wpc EXCEPT ![t] = "return"]
          /\ UNCHANGED requests
    /\ UNCHANGED <<now, quote_requests, quotes, clientVars, usdRates,
                   currencyPairMap, pair, idx, upsertFailed, rateCalls, finished,
                   schedVars, last, exchange, http>>

\* usdRates, err := w.externalAPI.GetMultipleExchangeRates(currencies): the
\* call fails as a whole, returns a table, or panics on a response without
\* rates; after a table the requests are grouped by pair.
FetchRatesFrom(t, tables) ==
    /\ wpc[t] = "fetch"
    /\ \/ /\ usdRates' = [usdRates EXCEPT ![t] = [err |-> TRUE, rates |-> <<>>]]
          /\ wpc' = [wpc EXCEPT ![t] = "markfailed"]
          /\ UNCHANGED currencyPairMap
       \/ /\ \E table \in tables :
                usdRates' = [usdRates EXCEPT ![t] =
                                [err |-> FALSE, rates |-> WithUSD(table)]]
          /\ currencyPairMap' = [currencyPairMap EXCEPT ![t] =
                {<<requests[t][k].From, requests[t][k].To>> : k \in 1..Len(requests[t])}]
          /\ wpc' = [wpc EXCEPT ![t] = "range"]
       \/ \* success = true and no "rates" in the body: apiResp.Rates is a nil
          \* map and apiResp.Rates["USD"] = 1.0 panics.
          /\ wpc' = [u \in Threads |-> "panic"]
          /\ UNCHANGED <<usdRates, currencyPairMap>>
    /\ idx' = [idx EXCEPT ![t] = 1]
    /\ rateCalls' = [rateCalls EXCEPT ![t] =
                        Append(@, extractUniqueCurrencies(requests[t]))]
    /\ UNCHANGED <<storeVars, clientVars, requests, pair, upsertFailed, finished, listErr,
                   schedVars, last, exchange, http>>

\* The call, answered by a Rate Source that reports the market's rates.
FetchRates(t) ==
    FetchRatesFrom(t, RateTables(extractUniqueCurrencies(requests[t])))

\* The call, answered by a Rate Source that may report any number.
FetchAnyRates(t) ==
    FetchRatesFrom(t, AnyRateTables(extractUniqueCurrencies(requests[t])))

\* A status write that goes by the pair of the request and not by its id.
WriteStatusByPair(t, reqs, status, next) ==
    /\ \/ /\ quote_requests' =
                [i \in DOMAIN quote_requests |->
                    IF /\ quote_requests[i].from = reqs[idx[t]].From
                       /\ quote_requests[i].to = reqs[idx[t]].To
                    THEN [quote_requests[i] EXCEPT !.status = status,
                                                   !.updated_at = now]
                    ELSE quote_requests[i]]
          /\ UNCHANGED faults
       \/ /\ CanFault
          /\ faults' = faults + 1
          /\ UNCHANGED quote_requests
    /\ IF idx[t] >= Len(reqs)
       THEN /\ wpc' = [wpc EXCEPT ![t] = next]
            /\ idx' = [idx EXCEPT ![t] = 1]
            /\ pair' = [pair EXCEPT ![t] = IF next = "range" THEN NoPair ELSE @]
       ELSE /\ idx' = [idx EXCEPT ![t] = idx[t] + 1]
            /\ UNCHANGED <<wpc, pair>>

\* One w.db.UpdateQuoteRequestStatus(req.ID, status) of a loop over reqs; an
\* error is logged and the loop goes on.  After the last request the
\* goroutine moves to `next`.
WriteStatus(t, reqs, status, next) ==
    /\ \/ /\ quote_requests' = UpdateStatus(reqs[idx[t]].ID, status)
          /\ UNCHANGED faults
       \/ /\ CanFault
          /\ faults' = faults + 1
          /\ UNCHANGED quote_requests
    /\ IF idx[t] >= Len(reqs)
       THEN /\ wpc' = [wpc EXCEPT ![t] = next]
            /\ idx' = [idx EXCEPT ![t] = 1]
            /\ pair' = [pair EXCEPT ![t] = IF next = "range" THEN NoPair ELSE @]
       ELSE /\ idx' = [idx EXCEPT ![t] = idx[t] + 1]
            /\ UNCHANGED <<wpc, pair>>

\* markAllRequestsAsFailed(requests, err)
markAllRequestsAsFailed(t) ==
    /\ wpc[t] = "markfailed"
    /\ WriteStatus(t, requests[t], "failed", "return")
    /\ UNCHANGED <<now, quotes, clientVars, requests, usdRates, currencyPairMap,
                   upsertFailed, rateCalls, finished, listErr, schedVars, last, exchange, http>>

\* A range that visits a key without ever leaving it behind.
RangePairsAgain(t) ==
    /\ wpc[t] = "range"
    /\ \/ /\ currencyPairMap[t] = {}
          /\ wpc' = [wpc EXCEPT ![t] = "return"]
          /\ UNCHANGED pair
       \/ /\ \E p \in currencyPairMap[t] : pair' = [pair EXCEPT ![t] = p]
          /\ wpc' = [wpc EXCEPT ![t] = "processing"]
    /\ UNCHANGED <<storeVars, clientVars, requests, usdRates, currencyPairMap, idx,
                   upsertFailed, rateCalls, finished, listErr, schedVars, last, exchange, http>>

\* for pair, reqs := range currencyPairMap: the keys come in any order.
RangePairs(t) ==
    /\ wpc[t] = "range"
    /\ \/ /\ currencyPairMap[t] = {}
          /\ wpc' = [wpc EXCEPT ![t] = "return"]
          /\ UNCHANGED <<currencyPairMap, pair>>
       \/ /\ \E p \in currencyPairMap[t] :
                /\ pair' = [pair EXCEPT ![t] = p]
                /\ currencyPairMap' = [currencyPairMap EXCEPT ![t] = @ \ {p}]
          /\ wpc' = [wpc EXCEPT ![t] = "processing"]
    /\ UNCHANGED <<storeVars, clientVars, requests, usdRates, idx, upsertFailed,
                   rateCalls, finished, listErr,
                   schedVars, last, exchange, http>>

\* currencyPairMap[pair]: the requests of the pair, in discovery order.
GroupOf(t) ==
    SelectSeq(requests[t], LAMBDA r : <<r.From, r.To>> = pair[t])

\* processCurrencyPairWithRates: every request of the group to "processing".
MarkProcessing(t) ==
    /\ wpc[t] = "processing"
    /\ WriteStatus(t, GroupOf(t), "processing", "upsert")
    /\ UNCHANGED <<now, quotes, clientVars, requests, usdRates, currencyPairMap,
                   upsertFailed, rateCalls, finished, listErr, schedVars, last, exchange, http>>

\* processCurrencyPairWithRates that logs a failed upsert and goes on to mark
\* the group completed.
CalculateAndUpsertLogOnly(t) ==
    /\ wpc[t] = "upsert"
    /\ LET from == GroupOf(t)[1].From
           to   == GroupOf(t)[1].To
           calc == CalculateExchangeRate(from, to, usdRates[t].rates)
       IN  \/ /\ calc.err
              /\ wpc' = [wpc EXCEPT ![t] = "failed"]
              /\ UNCHANGED <<now, faults, quotes, upsertFailed>>
           \/ /\ ~calc.err
              /\ UpsertOutcome(from, to, calc.rate) = "ok"
              /\ quotes' = UpsertQuote(from, to, calc.rate)
              /\ now' = IF QuoteConflict(from, to) THEN now ELSE ClockAfterInsert
              /\ wpc' = [wpc EXCEPT ![t] = "completed"]
              /\ UNCHANGED <<faults, upsertFailed>>
           \/ /\ ~calc.err
              /\ CanFault
              /\ faults' = faults + 1
              /\ wpc' = [wpc EXCEPT ![t] = "completed"]
              /\ upsertFailed' = [upsertFailed EXCEPT ![t] = @ \cup {pair[t]}]
              /\ UNCHANGED <<now, quotes>>
    /\ UNCHANGED <<quote_requests, clientVars, requests, usdRates, currencyPairMap,
                   pair, idx, rateCalls, finished, listErr, schedVars, last, exchange, http>>

\* processCurrencyPairWithRates: the rate of the pair, then w.db.UpsertQuote.
\* A pair the table cannot price and a failed upsert both lead to "failed".
CalculateAndUpsert(t) ==
    /\ wpc[t] = "upsert"
    /\ LET from == GroupOf(t)[1].From
           to   == GroupOf(t)[1].To
           calc == CalculateExchangeRate(from, to, usdRates[t].rates)
       IN  \/ /\ calc.err
              /\ wpc' = [wpc EXCEPT ![t] = "failed"]
              /\ UNCHANGED <<now, faults, quotes, upsertFailed>>
           \/ /\ ~calc.err
              /\ UpsertOutcome(from, to, calc.rate) = "ok"
              /\ quotes' = UpsertQuote(from, to, calc.rate)
              /\ now' = IF QuoteConflict(from, to) THEN now ELSE ClockAfterInsert
              /\ wpc' = [wpc EXCEPT ![t] = "completed"]
              /\ UNCHANGED <<faults, upsertFailed>>
           \/ /\ ~calc.err
              /\ UpsertOutcome(from, to, calc.rate) # "ok"
              /\ wpc' = [wpc EXCEPT ![t] = "failed"]
              /\ upsertFailed' = [upsertFailed EXCEPT ![t] = @ \cup {pair[t]}]
              /\ UNCHANGED <<now, faults, quotes>>
           \/ /\ ~calc.err
              /\ CanFault
              /\ faults' = faults + 1
              /\ wpc' = [wpc EXCEPT ![t] = "failed"]
              /\ upsertFailed' = [upsertFailed EXCEPT ![t] = @ \cup {pair[t]}]
              /\ UNCHANGED <<now, quotes>>
    /\ UNCHANGED <<quote_requests, clientVars, requests, usdRates, currencyPairMap,
                   pair, idx, rateCalls, finished, listErr, schedVars, last, exchange, http>>

\* processCurrencyPairWithRates: every request of the group to "failed".
MarkFailed(t) ==
    /\ wpc[t] = "failed"
    /\ WriteStatus(t, GroupOf(t), "failed", "range")
    /\ UNCHANGED <<now, quotes, clientVars, requests, usdRates, currencyPairMap,
                   upsertFailed, rateCalls, finished, listErr, schedVars, last, exchange, http>>

\* processCurrencyPairWithRates: every request of the group to "completed".
MarkCompleted(t) ==
    /\ wpc[t] = "completed"
    /\ WriteStatus(t, GroupOf(t), "completed", "range")
    /\ UNCHANGED <<now, quotes, clientVars, requests, usdRates, currencyPairMap,
                   upsertFailed, rateCalls, finished, listErr, schedVars, last, exchange, http>>

\* processPendingRequests returns: the goroutine of the first run ends, the
\* loop goes back to its select.
ReturnFromCycle(t) ==
    /\ wpc[t] = "return"
    /\ wpc' = [wpc EXCEPT ![t] = IF t = "first" THEN "exited" ELSE "select"]
    /\ requests' = [requests EXCEPT ![t] = <<>>]
    /\ usdRates' = [usdRates EXCEPT ![t] = NoRates]
    /\ currencyPairMap' = [currencyPairMap EXCEPT ![t] = {}]
    /\ pair' = [pair EXCEPT ![t] = NoPair]
    /\ idx' = [idx EXCEPT ![t] = 1]
    /\ upsertFailed' = [upsertFailed EXCEPT ![t] = {}]
    /\ rateCalls' = [rateCalls EXCEPT ![t] = <<>>]
    /\ finished' = finished \cup {requests[t][k].ID : k \in 1..Len(requests[t])}
    /\ listErr' = [listErr EXCEPT ![t] = FALSE]
    /\ UNCHANGED <<storeVars, clientVars, schedVars, last, exchange, http>>

(***************************************************************************)
(* Worker.Start and Worker.Stop.                                           *)
(***************************************************************************)
\* A Start that spawns the loop alone: the first cycle waits for a tick.
StartWithoutFirstRun ==
    /\ wpc["first"] = "unspawned"
    /\ wpc["loop"] = "unspawned"
    /\ wpc' = [wpc EXCEPT !["first"] = "exited", !["loop"] = "select"]
    /\ UNCHANGED <<storeVars, clientVars, cycleVars, schedVars, last, exchange, http>>

\* Start: the ticker is made, `go w.processPendingRequests()` and the loop
\* goroutine are spawned.
Start ==
    /\ wpc["first"] = "unspawned"
    /\ wpc["loop"] = "unspawned"
    /\ wpc' = [wpc EXCEPT !["first"] = "ready", !["loop"] = "select"]
    /\ UNCHANGED <<storeVars, clientVars, cycleVars, schedVars, last, exchange, http>>

Started == wpc["loop"] # "unspawned"

\* The goroutine of the first run gets to run.
FirstRun ==
    /\ wpc["first"] = "ready"
    /\ wpc' = [wpc EXCEPT !["first"] = "list"]
    /\ UNCHANGED <<storeVars, clientVars, cycleVars, schedVars, last, exchange, http>>

\* The ticker fires (at most n times): the tick goes to the one-slot buffer
\* of w.ticker.C.
Tick(n) ==
    /\ ~Crashed
    /\ Started
    /\ ~tickerStopped
    /\ tickerC = 0
    /\ ticks < n
    /\ tickerC' = 1
    /\ ticks' = ticks + 1
    /\ UNCHANGED <<storeVars, clientVars, wpc, cycleVars, tickerStopped, ctxDone, spc,
                   last, exchange, http>>

\* The ticker fires on a full buffer: the runtime drops the tick.
TickDropped ==
    /\ ~Crashed
    /\ Started
    /\ ~tickerStopped
    /\ tickerC = 1
    /\ UNCHANGED vars

\* case <-w.ticker.C: w.processPendingRequests()
LoopTick ==
    /\ wpc["loop"] = "select"
    /\ tickerC = 1
    /\ tickerC' = 0
    /\ wpc' = [wpc EXCEPT !["loop"] = "list"]
    /\ UNCHANGED <<storeVars, clientVars, cycleVars, ticks, tickerStopped, ctxDone, spc,
                   last, exchange, http>>

\* case <-w.done: the send of one Stop caller is received.
LoopDone ==
    /\ wpc["loop"] = "select"
    /\ \E s \in Stoppers :
          /\ spc[s] = "send"
          /\ spc' = [spc EXCEPT ![s] = "returned"]
    /\ wpc' = [wpc EXCEPT !["loop"] = "exited"]
    /\ UNCHANGED <<storeVars, clientVars, cycleVars, tickerC, ticks, tickerStopped, ctxDone,
                   last, exchange, http>>

\* case <-ctx.Done()
LoopCtxDone ==
    /\ wpc["loop"] = "select"
    /\ ctxDone
    /\ wpc' = [wpc EXCEPT !["loop"] = "exited"]
    /\ UNCHANGED <<storeVars, clientVars, cycleVars, schedVars, last, exchange, http>>

\* Stop, up to the send: w.ticker.Stop() when the ticker exists; the caller
\* then blocks in `w.done <- true` until the loop receives.
Stop(s) ==
    /\ ~Crashed
    /\ spc[s] = "idle"
    /\ spc' = [spc EXCEPT ![s] = "send"]
    /\ tickerStopped' = (tickerStopped \/ Started)
    /\ UNCHANGED <<storeVars, clientVars, wpc, cycleVars, tickerC, ticks, ctxDone,
                   last, exchange, http>>

\* The context given to Start is cancelled.
Cancel ==
    /\ ~Crashed
    /\ ~ctxDone
    /\ ctxDone' = TRUE
    /\ UNCHANGED <<storeVars, clientVars, wpc, cycleVars, tickerC, ticks, tickerStopped, spc,
                   last, exchange, http>>

Cycle(t) ==
    \/ ListPending(t)
    \/ FetchRates(t)
    \/ markAllRequestsAsFailed(t)
    \/ RangePairs(t)
    \/ MarkProcessing(t)
    \/ CalculateAndUpsert(t)
    \/ MarkFailed(t)
    \/ MarkCompleted(t)
    \/ ReturnFromCycle(t)

\* CreateOrGetPendingQuoteRequest called by the callers in C.
Call(C) ==
    \/ \E c \in C : \E p \in RequestPairs :
          GetPendingQuoteRequestByPair(c, p[1], p[2]) /\ UNCHANGED http
    \/ \E c \in C : RefreshExisting(c)
    \/ \E c \in C : CreateQuoteRequest(c)

\* The worker after Start, up to a shutdown.
Run(n) ==
    \/ Start
    \/ FirstRun
    \/ Tick(n)
    \/ TickDropped
    \/ LoopTick
    \/ \E t \in Threads : Cycle(t)

\* Shutdown: Stop, the cancellation of ctx, and the loop taking either.
Shutdown ==
    \/ LoopDone
    \/ LoopCtxDone
    \/ \E s \in Stoppers : Stop(s)
    \/ Cancel

(***************************************************************************)
(* Spec: the service while it runs (no shutdown is asked for), with every  *)
(* caller.  A shutdown only ends the loop, which the ticker never firing   *)
(* again does as well, so it adds no behaviour of the store.               *)
(***************************************************************************)
Next == Call(Clients) \/ Run(MaxTicks)

Spec == Init /\ [][Next]_vars

(***************************************************************************)
(* SpecShutdown: the service with Stop and the cancellation of ctx, and    *)
(* one call of CreateOrGetPendingQuoteRequest, which finds the store empty *)
(* of pending requests and so has nothing to refresh.                      *)
(***************************************************************************)
CallAlone ==
    \/ \E p \in RequestPairs :
          GetPendingQuoteRequestByPair(1, p[1], p[2]) /\ UNCHANGED http
    \/ CreateQuoteRequest(1)

NextShutdown == CallAlone \/ Run(MaxTicksShutdown) \/ Shutdown

SpecShutdown == Init /\ [][NextShutdown]_vars

(***************************************************************************)
(* SpecShutdownFair: SpecShutdown with the Go scheduler's guarantee that a *)
(* runnable goroutine gets to run: the loop goroutine (its select and the  *)
(* cycle it runs inline) and the goroutine of the first run each take      *)
(* their next step when one is possible.  Nothing obliges the ticker, the  *)
(* callers, Stop or the cancellation of ctx to happen.                     *)
(***************************************************************************)
LoopGoroutine == LoopTick \/ LoopDone \/ LoopCtxDone \/ Cycle("loop")

FirstRunGoroutine == FirstRun \/ Cycle("first")

SpecShutdownFair ==
    /\ SpecShutdown
    /\ WF_vars(LoopGoroutine)
    /\ WF_vars(FirstRunGoroutine)

(***************************************************************************)
(* The methods of database.DB called directly, each one statement.         *)
(***************************************************************************)
\* An id no INSERT generates.
NoSuchID == 0

Statuses == {"pending", "processing", "completed", "failed"}

\* The rates handed to UpsertQuote.
UpsertRates == {Rat(17, 20), Rat(37, 2)}

\* Another direct call may be made.
CanCall == last.n < MaxStoreCalls

\* The record of a direct call.
Called(op, id, from, to, status, rate, err, out) ==
    [n |-> last.n + 1, op |-> op, id |-> id, from |-> from, to |-> to,
     status |-> status, rate |-> rate, err |-> err, out |-> out]

\* What is left alone by every direct call.
callFrame == <<clientVars, wpc, cycleVars, schedVars, exchange, http>>

\* db.UpdateQuoteRequestStatus(id, status): the error of Exec is the only
\* error returned.
CallUpdateQuoteRequestStatus(id, status) ==
    /\ CanCall
    /\ \/ /\ quote_requests' = UpdateStatus(id, status)
          /\ last' = Called("UpdateQuoteRequestStatus", id, "", "", status, <<>>, "none", <<>>)
          /\ UNCHANGED faults
       \/ /\ CanFault
          /\ faults' = faults + 1
          /\ last' = Called("UpdateQuoteRequestStatus", id, "", "", status, <<>>, "db_error", <<>>)
          /\ UNCHANGED quote_requests
    /\ UNCHANGED <<now, quotes, callFrame>>

\* db.GetQuoteRequest(id): sql.ErrNoRows is "quote request not found".
CallGetQuoteRequest(id) ==
    /\ CanCall
    /\ \/ /\ last' = Called("GetQuoteRequest", id, "", "", "", <<>>,
                            IF id \in DOMAIN quote_requests THEN "none" ELSE "not_found",
                            IF id \in DOMAIN quote_requests THEN <<id>> ELSE <<>>)
          /\ UNCHANGED faults
       \/ /\ CanFault
          /\ faults' = faults + 1
          /\ last' = Called("GetQuoteRequest", id, "", "", "", <<>>, "db_error", <<>>)
    /\ UNCHANGED <<now, quote_requests, quotes, callFrame>>

\* A GetQuote that returns a zero Quote and no error when no row matches.
CallGetQuoteZeroValue(from, to) ==
    /\ CanCall
    /\ last' = Called("GetQuote", 0, from, to, "", <<>>, "none", <<>>)
    /\ UNCHANGED <<storeVars, callFrame>>

\* db.GetQuote(from, to): sql.ErrNoRows is "quote not found"; QueryRow scans
\* the first row of the result.
CallGetQuote(from, to) ==
    /\ CanCall
    /\ \/ /\ QuotesOfPair(from, to) = {}
          /\ last' = Called("GetQuote", 0, from, to, "", <<>>, "not_found", <<>>)
          /\ UNCHANGED faults
       \/ /\ \E q \in QuotesOfPair(from, to) :
                last' = Called("GetQuote", 0, from, to, "", <<>>, "none", <<q>>)
          /\ UNCHANGED faults
       \/ /\ CanFault
          /\ faults' = faults + 1
          /\ last' = Called("GetQuote", 0, from, to, "", <<>>, "db_error", <<>>)
    /\ UNCHANGED <<now, quote_requests, quotes, callFrame>>

\* db.UpsertQuote(from, to, rate)
CallUpsertQuote(from, to, rate) ==
    /\ CanCall
    /\ \/ /\ UpsertOutcome(from, to, rate) = "ok"
          /\ quotes' = UpsertQuote(from, to, rate)
          /\ now' = IF QuoteConflict(from, to) THEN now ELSE ClockAfterInsert
          /\ last' = Called("UpsertQuote", 0, from, to, "", rate, "none", <<>>)
          /\ UNCHANGED faults
       \/ /\ UpsertOutcome(from, to, rate) # "ok"
          /\ last' = Called("UpsertQuote", 0, from, to, "", rate,
                            UpsertOutcome(from, to, rate), <<>>)
          /\ UNCHANGED <<now, faults, quotes>>
       \/ /\ CanFault
          /\ faults' = faults + 1
          /\ last' = Called("UpsertQuote", 0, from, to, "", rate, "db_error", <<>>)
          /\ UNCHANGED <<now, quotes>>
    /\ UNCHANGED <<quote_requests, callFrame>>

\* db.GetPendingQuoteRequests(): out holds the ids of the rows returned, in
\* the order returned.
CallGetPendingQuoteRequests ==
    /\ CanCall
    /\ \/ /\ last' = Called("GetPendingQuoteRequests", 0, "", "", "", <<>>, "none",
                            [k \in 1..Len(GetPendingQuoteRequests) |->
                                GetPendingQuoteRequests[k].ID])
          /\ UNCHANGED faults
       \/ /\ CanFault
          /\ faults' = faults + 1
          /\ last' = Called("GetPendingQuoteRequests", 0, "", "", "", <<>>, "db_error", <<>>)
    /\ UNCHANGED <<now, quote_requests, quotes, callFrame>>

(***************************************************************************)
(* SpecStore: the store by itself.  Callers create requests through        *)
(* CreateOrGetPendingQuoteRequest, and the other methods of database.DB    *)
(* are called in any order, with any argument.                             *)
(***************************************************************************)
NextStore ==
    \/ Call(Clients)
    \/ \E id \in DOMAIN quote_requests \cup {NoSuchID} :
          \E status \in Statuses : CallUpdateQuoteRequestStatus(id, status)
    \/ \E id \in DOMAIN quote_requests \cup {NoSuchID} : CallGetQuoteRequest(id)
    \/ \E p \in RequestPairs : CallGetQuote(p[1], p[2])
    \/ \E p \in RequestPairs : \E rate \in UpsertRates : CallUpsertQuote(p[1], p[2], rate)
    \/ CallGetPendingQuoteRequests

SpecStore == Init /\ [][NextStore]_vars

(***************************************************************************)
(* SpecCalc: CalculateExchangeRate by itself, called once with any         *)
(* codes and any table: a table holds any part of the codes, USD or not,   *)
(* each with any of the rates.                                             *)
(***************************************************************************)
\* The rates a table may hold for a code.
TableRates == {Rat(0, 1), Rat(1, 1), Rat(17, 20), Rat(37, 2)}

\* The tables: a nil map and an empty map are both the table of no code.
Tables ==
    UNION {[S -> TableRates] : S \in SUBSET SupportedCurrencies}

InitCalc ==
    /\ InitService
    /\ \E from, to \in SupportedCurrencies : \E table \in Tables :
          exchange = [from |-> from, to |-> to, usdRates |-> table,
                  returned |-> FALSE, err |-> FALSE, rate |-> <<0, 1>>]

\* rate, err := CalculateExchangeRate(from, to, usdRates)
ApplyCalculateExchangeRate ==
    /\ exchange.from # ""
    /\ ~exchange.returned
    /\ LET r == CalculateExchangeRate(exchange.from, exchange.to, exchange.usdRates)
       IN  exchange' = [exchange EXCEPT !.returned = TRUE, !.err = r.err, !.rate = r.rate]
    /\ UNCHANGED <<storeVars, clientVars, wpc, cycleVars, schedVars, last, http>>

NextCalc == ApplyCalculateExchangeRate

SpecCalc == InitCalc /\ [][NextCalc]_vars

(***************************************************************************)
(* HTTP handlers: UpdateQuote, GetQuoteByID, GetLatestQuote.  A currency   *)
(* code of a request is a sequence of characters, so that TrimSpace and    *)
(* ToUpper do what the library does.                                       *)
(***************************************************************************)
\* The codes a request carries: missing, padded lower case, upper case,
\* padded upper case, not supported.
RawCodes ==
    { <<>>, <<" ", "e", "u", "r">>, <<"E", "U", "R">>, <<"M", "X", "N", " ">>,
      <<"g", "b", "p">> }

\* strings.TrimSpace
RECURSIVE TrimLeft(_)
TrimLeft(s) ==
    IF s # <<>> /\ Head(s) = " " THEN TrimLeft(Tail(s)) ELSE s

RECURSIVE TrimRight(_)
TrimRight(s) ==
    IF s # <<>> /\ s[Len(s)] = " " THEN TrimRight(SubSeq(s, 1, Len(s) - 1)) ELSE s

TrimSpace(s) == TrimRight(TrimLeft(s))

\* strings.ToUpper
UpperOf(ch) ==
    CASE ch = "e" -> "E" [] ch = "u" -> "U" [] ch = "r" -> "R"
      [] ch = "g" -> "G" [] ch = "b" -> "B" [] ch = "p" -> "P"
      [] OTHER -> ch

ToUpper(s) == [k \in 1..Len(s) |-> UpperOf(s[k])]

\* The string of a sequence of characters.
RECURSIVE Join(_)
Join(s) == IF s = <<>> THEN "" ELSE Head(s) \o Join(Tail(s))

\* strings.ToUpper(strings.TrimSpace(req.From))
Normalize(s) == Join(ToUpper(TrimSpace(s)))

\* An IsSupportedCurrencyFromList that accepts every code.
IsAnyCurrency(currency, supportedList) == TRUE

\* models.IsSupportedCurrencyFromList(currency, h.supportedCurrencies)
IsSupportedCurrencyFromList(currency, supportedList) ==
    currency \in supportedList

\* The path variable id made of blanks only.
BlankID == -1

\* The server takes a request when no answer is being prepared.
CanServe ==
    /\ ~Crashed
    /\ http.pc = "idle"

\* The frame of a new request to handler op.
Request(op) == [NoHttp EXCEPT !.op = op]

\* What a handler that only reads leaves alone.
readFrame == <<now, quote_requests, quotes, clientVars, wpc, cycleVars, schedVars,
               last, exchange>>

\* UpdateQuote, up to the SELECT of CreateOrGetPendingQuoteRequest: the body
\* is decoded, from and to are validated and normalised.
UpdateQuote(c, decoded, reqFrom, reqTo) ==
    /\ CanServe
    /\ cpc[c] = "idle"
    /\ LET from  == Normalize(reqFrom)
           to    == Normalize(reqTo)
           frame == [Request("UpdateQuote") EXCEPT !.reqFrom = reqFrom, !.reqTo = reqTo]
       IN  IF \/ ~decoded
              \/ TrimSpace(reqFrom) = <<>>
              \/ TrimSpace(reqTo) = <<>>
              \/ from = to
              \/ ~IsSupportedCurrencyFromList(from, SupportedCurrencies)
              \/ ~IsSupportedCurrencyFromList(to, SupportedCurrencies)
           THEN /\ http' = [frame EXCEPT !.code = 400]
                /\ UNCHANGED <<storeVars, clientVars, wpc, cycleVars, schedVars,
                               last, exchange>>
           ELSE /\ http' = [frame EXCEPT !.pc = "store", !.from = from, !.to = to,
                                         !.calls = <<"CreateOrGetPendingQuoteRequest">>]
                /\ GetPendingQuoteRequestByPair(c, from, to)

\* UpdateQuote after CreateOrGetPendingQuoteRequest has returned: 500 on an
\* error, 200 with the request otherwise.
UpdateQuoteRespond(c) ==
    /\ ~Crashed
    /\ http.op = "UpdateQuote"
    /\ http.pc = "store"
    /\ cpc[c] = "done"
    /\ http' = [http EXCEPT !.pc = "idle", !.err = cret[c].err, !.id = cret[c].id,
                            !.code = IF cret[c].err = "none" THEN 200 ELSE 500]
    /\ UNCHANGED <<storeVars, clientVars, wpc, cycleVars, schedVars, last, exchange>>

\* A GetQuoteByID that goes on to GetQuote whatever the status is.
GetQuoteByIDAnyStatus(id) ==
    /\ CanServe
    /\ id \in DOMAIN quote_requests
    /\ http' = [Request("GetQuoteByID") EXCEPT
                   !.id = id, !.calls = <<"GetQuoteRequest">>,
                   !.status = quote_requests[id].status,
                   !.from = quote_requests[id].from, !.to = quote_requests[id].to,
                   !.pc = "getQuote"]
    /\ UNCHANGED <<faults, readFrame>>

\* GetQuoteByID, up to the check of the status: a blank id is refused, any
\* error of GetQuoteRequest is answered 404, a status other than completed
\* is answered 400.
GetQuoteByID(id) ==
    /\ CanServe
    /\ LET frame == [Request("GetQuoteByID") EXCEPT !.id = id]
           read  == [frame EXCEPT !.calls = <<"GetQuoteRequest">>]
       IN  \/ /\ id = BlankID
              /\ http' = [frame EXCEPT !.code = 400]
              /\ UNCHANGED faults
           \/ /\ id # BlankID
              /\ id \notin DOMAIN quote_requests
              /\ http' = [read EXCEPT !.err = "not_found", !.code = 404]
              /\ UNCHANGED faults
           \/ /\ id \in DOMAIN quote_requests
              /\ quote_requests[id].status # "completed"
              /\ http' = [read EXCEPT !.status = quote_requests[id].status,
                                      !.code = 400]
              /\ UNCHANGED faults
           \/ /\ id \in DOMAIN quote_requests
              /\ quote_requests[id].status = "completed"
              /\ http' = [read EXCEPT !.status = "completed",
                                      !.from = quote_requests[id].from,
                                      !.to = quote_requests[id].to,
                                      !.pc = "getQuote"]
              /\ UNCHANGED faults
           \/ /\ id # BlankID
              /\ CanFault
              /\ faults' = faults + 1
              /\ http' = [read EXCEPT !.err = "db_error", !.code = 404]
    /\ UNCHANGED readFrame

\* GetQuoteByID from GetQuote on: any error of GetQuote is answered 500.
GetQuoteByIDQuote ==
    /\ ~Crashed
    /\ http.op = "GetQuoteByID"
    /\ http.pc = "getQuote"
    /\ LET read == [http EXCEPT !.pc = "idle", !.calls = Append(@, "GetQuote")]
       IN  \/ /\ QuotesOfPair(http.from, http.to) = {}
              /\ http' = [read EXCEPT !.err = "not_found", !.code = 500]
              /\ UNCHANGED faults
           \/ /\ \E q \in QuotesOfPair(http.from, http.to) :
                    http' = [read EXCEPT !.quote = <<q>>, !.code = 200]
              /\ UNCHANGED faults
           \/ /\ CanFault
              /\ faults' = faults + 1
              /\ http' = [read EXCEPT !.err = "db_error", !.code = 500]
    /\ UNCHANGED readFrame

\* A GetLatestQuote that answers every error of GetQuote with 500.
GetLatestQuoteInternalError(reqFrom, reqTo) ==
    /\ CanServe
    /\ QuotesOfPair(Normalize(reqFrom), Normalize(reqTo)) = {}
    /\ http' = [Request("GetLatestQuote") EXCEPT
                   !.reqFrom = reqFrom, !.reqTo = reqTo,
                   !.from = Normalize(reqFrom), !.to = Normalize(reqTo),
                   !.calls = <<"GetQuote">>, !.err = "not_found", !.code = 500]
    /\ UNCHANGED <<faults, readFrame>>

\* GetLatestQuote: from and to are validated and normalised, any error of
\* GetQuote is answered 404.
GetLatestQuote(reqFrom, reqTo) ==
    /\ CanServe
    /\ LET from  == Normalize(reqFrom)
           to    == Normalize(reqTo)
           frame == [Request("GetLatestQuote") EXCEPT !.reqFrom = reqFrom, !.reqTo = reqTo]
           read  == [frame EXCEPT !.from = from, !.to = to, !.calls = <<"GetQuote">>]
       IN  IF \/ TrimSpace(reqFrom) = <<>>
              \/ TrimSpace(reqTo) = <<>>
              \/ ~IsSupportedCurrencyFromList(from, SupportedCurrencies)
              \/ ~IsSupportedCurrencyFromList(to, SupportedCurrencies)
           THEN /\ http' = [frame EXCEPT !.code = 400]
                /\ UNCHANGED faults
           ELSE \/ /\ QuotesOfPair(from, to) = {}
                   /\ http' = [read EXCEPT !.err = "not_found", !.code = 404]
                   /\ UNCHANGED faults
                \/ /\ \E q \in QuotesOfPair(from, to) :
                         http' = [read EXCEPT !.quote = <<q>>, !.code = 200]
                   /\ UNCHANGED faults
                \/ /\ CanFault
                   /\ faults' = faults + 1
                   /\ http' = [read EXCEPT !.err = "db_error", !.code = 404]
    /\ UNCHANGED readFrame

(***************************************************************************)
(* SpecApi: the service as its clients see it.  One HTTP request is served *)
(* at a time, while the worker runs the cycle of its first run; one        *)
(* UpdateQuote gets as far as the store, and finds no pending request to   *)
(* refresh.                                                                *)
(***************************************************************************)
NextApi ==
    \/ \E reqFrom, reqTo \in RawCodes : UpdateQuote(1, TRUE, reqFrom, reqTo)
    \/ UpdateQuote(1, FALSE, <<>>, <<>>)
    \/ CreateQuoteRequest(1)
    \/ UpdateQuoteRespond(1)
    \/ \E id \in DOMAIN quote_requests \cup {NoSuchID, BlankID} : GetQuoteByID(id)
    \/ GetQuoteByIDQuote
    \/ \E reqFrom, reqTo \in RawCodes : GetLatestQuote(reqFrom, reqTo)
    \/ Start
    \/ FirstRun
    \/ Cycle("first")

SpecApi == Init /\ [][NextApi]_vars

(***************************************************************************)
(* Properties.                                                             *)
(***************************************************************************)
Terminal == {"completed", "failed"}

\* The requests goroutine t discovered, as a set of rows.
Discovered(t) == {requests[t][k] : k \in 1..Len(requests[t])}

\* The table of goroutine t prices the pair of request r.
Priced(t, r) ==
    /\ r.From \in DOMAIN usdRates[t].rates
    /\ r.To \in DOMAIN usdRates[t].rates

\* The step is one of goroutine t.
StepOf(t) == wpc'[t] # wpc[t] \/ idx'[t] # idx[t]

\* The step ends a cycle of goroutine t that discovered requests and whose
\* Rate Source call succeeded.
EndsResolvedCycle(t) ==
    /\ wpc[t] # "return"
    /\ wpc'[t] = "return"
    /\ Len(requests[t]) > 0
    /\ ~usdRates[t].err

\* C1: in every reachable state the store holds at most one request with
\* status pending for any (from, to) pair.
C1_AtMostOnePendingPerPair ==
    \A from, to \in SupportedCurrencies : Cardinality(PendingByPair(from, to)) <= 1

\* C1, its case: the partial unique index has refused the INSERT of a caller
\* whose SELECT ran before another caller created the pending request.
C1_Witness ==
    \E c \in Clients :
        /\ cpc[c] = "done"
        /\ cret[c].err = "unique_violation"
        /\ PendingByPair(cargs[c][1], cargs[c][2]) # {}

\* C2: a caller whose SELECT found no pending request for the pair, and who
\* creates after a concurrent caller has created the pending request of the
\* pair, receives that same request and no error (no database error being
\* involved).
C2_ConcurrentCallersShareOneRequest ==
    [][\A c, d \in Clients :
          ( /\ c # d
            /\ cpc[d] = "create" /\ cpc'[d] = "done"
            /\ existingRequest[d] = 0
            /\ faults = 0 /\ faults' = 0
            /\ cpc[c] = "done"
            /\ cargs[c] = cargs[d]
            /\ cret[c].err = "none"
            /\ cret[c].id \in PendingByPair(cargs[d][1], cargs[d][2]) )
          => cret'[d] = [err |-> "none", id |-> cret[c].id]]_vars

\* C3: no step changes the status of a request that is completed or failed.
C3_TerminalNeverWrittenAgain ==
    [][\A id \in DOMAIN quote_requests :
          quote_requests[id].status \in Terminal
          => quote_requests'[id].status = quote_requests[id].status]_vars

\* C4: the first run and a tick-triggered run never execute at the same time.
C4_NoOverlappingCycles == ~(InCycle("first") /\ InCycle("loop"))

\* C5: while a tick-triggered cycle is in flight no tick is queued in
\* w.ticker.C for the loop to take when the cycle returns: a tick that fires
\* then is dropped.
C5_TickDuringCycleDropped ==
    [][InCycle("loop") => ~(tickerC = 0 /\ tickerC' = 1)]_vars

\* C6: once Stop has been called or ctx is cancelled, no goroutine begins a
\* cycle.
C6_NoCycleAfterShutdown ==
    [][((\E s \in Stoppers : spc[s] # "idle") \/ ctxDone)
       => \A t \in Threads : InCycle(t)' => InCycle(t)]_vars

\* C7: a cycle whose Rate Source call failed creates and modifies no Quote,
\* and at the step that ends it every request it discovered is failed.
C7_RateFailureFailsAll ==
    [][\A t \in Threads :
          usdRates[t].err
          => /\ StepOf(t) => quotes' = quotes
             /\ (wpc[t] = "markfailed" /\ wpc'[t] = "return")
                => \A r \in Discovered(t) : quote_requests'[r.ID].status = "failed"]_vars

\* C8: at the step that ends a cycle whose table lacks a currency (no
\* database error having occurred), the requests whose pair the table cannot
\* price are failed and every other discovered request is completed.
C8_MissingCurrencyFailsOnlyItsGroups ==
    [][\A t \in Threads :
          ( /\ EndsResolvedCycle(t)
            /\ faults' = 0
            /\ \E r \in Discovered(t) : ~Priced(t, r) )
          => \A r \in Discovered(t) :
                quote_requests'[r.ID].status =
                    IF Priced(t, r) THEN "completed" ELSE "failed"]_vars

\* C9: at the step that ends a cycle in which UpsertQuote failed for a
\* group, the requests of that group are failed and every other group has
\* the outcome it would have had: completed when the table prices it, failed
\* when not.
C9_UpsertFailureScopedToGroup ==
    [][\A t \in Threads :
          ( /\ EndsResolvedCycle(t)
            /\ upsertFailed[t] # {} )
          => \A r \in Discovered(t) :
                quote_requests'[r.ID].status =
                    IF <<r.From, r.To>> \in upsertFailed[t] THEN "failed"
                    ELSE IF Priced(t, r) THEN "completed" ELSE "failed"]_vars

\* C10: at the step that ends a cycle whose Rate Source call succeeded and
\* in which no store statement failed, every discovered request the table
\* prices is completed and the Quote of its pair holds the rate
\* CalculateExchangeRate gives for the table (as the rate column keeps it).
C10_ResolvedCycleCompletesAndStoresRate ==
    [][\A t \in Threads :
          ( /\ EndsResolvedCycle(t)
            /\ faults' = 0 )
          => \A r \in Discovered(t) :
                Priced(t, r)
                => /\ quote_requests'[r.ID].status = "completed"
                   /\ QuotesOfPair(r.From, r.To)' # {}
                   /\ \A q \in QuotesOfPair(r.From, r.To)' :
                          quotes'[q].rate =
                              StoredRate(CalculateExchangeRate(
                                  r.From, r.To, usdRates[t].rates).rate)]_vars

\* The currency codes of the requests goroutine t discovered.
DiscoveredCodes(t) ==
    {c \in SupportedCurrencies :
        \E r \in Discovered(t) : c = r.From \/ c = r.To}

\* C11: a cycle that discovered at least one request never has more than
\* one Rate Source call behind it, each call was passed exactly the codes
\* occurring as from or to of a discovered request, and past the call (the
\* process not having ended before it) the cycle has made exactly one.
C11_OneRateCallWithUnionOfCodes ==
    \A t \in Threads :
        Len(requests[t]) > 0
        => /\ Len(rateCalls[t]) <= 1
           /\ \A k \in 1..Len(rateCalls[t]) : rateCalls[t][k] = DiscoveredCodes(t)
           /\ wpc[t] \notin {"list", "fetch", "panic"} => Len(rateCalls[t]) = 1

\* C11, its case: a cycle that discovered two requests sharing a currency
\* has ended, having asked once for the three codes.
C11_Witness ==
    \E t \in Threads :
        /\ wpc[t] = "return"
        /\ Len(requests[t]) = 2
        /\ requests[t][1].To = requests[t][2].From \/ requests[t][2].To = requests[t][1].From
        /\ rateCalls[t] = <<{USD, EUR, MXN}>>

\* C12: every step of a cycle that discovered no request leaves the
\* requests and the Quotes as they are, and the cycle makes no Rate Source
\* call.
C12_EmptyCycleChangesNothing ==
    [][\A t \in Threads :
          ( /\ StepOf(t)
            /\ InCycle(t)
            /\ Len(requests[t]) = 0
            /\ Len(requests'[t]) = 0 )
          => /\ quote_requests' = quote_requests
             /\ quotes' = quotes
             /\ rateCalls[t] = <<>>
             /\ rateCalls'[t] = <<>>]_vars

\* C12, its case: a cycle has listed a store that holds requests, none of
\* them pending, and is about to return.
C12_Witness ==
    \E t \in Threads :
        /\ wpc[t] = "return"
        /\ Len(requests[t]) = 0
        /\ faults = 0
        /\ DOMAIN quote_requests # {}
        /\ \A id \in DOMAIN quote_requests : quote_requests[id].status # "pending"

\* C13: a call of CreateOrGetPendingQuoteRequest that no database error
\* touched returns, when its SELECT found a pending request of the pair,
\* that request, adding no row and leaving its pair, status and created_at
\* alone; and when a pending request of the pair did not exist, it adds
\* exactly one row, pending and of the pair, and returns it.
C13_CreateOrGetPending ==
    [][\A c \in Clients :
          ( /\ cpc[c] # "done"
            /\ cpc'[c] = "done"
            /\ faults' = 0 )
          => IF existingRequest[c] # 0
             THEN /\ cret'[c] = [err |-> "none", id |-> existingRequest[c]]
                  /\ DOMAIN quote_requests' = DOMAIN quote_requests
                  /\ \A id \in DOMAIN quote_requests :
                        /\ quote_requests'[id].from = quote_requests[id].from
                        /\ quote_requests'[id].to = quote_requests[id].to
                        /\ quote_requests'[id].status = quote_requests[id].status
                        /\ quote_requests'[id].created_at = quote_requests[id].created_at
             ELSE /\ cret'[c].err = "none"
                  /\ cret'[c].id \notin DOMAIN quote_requests
                  /\ DOMAIN quote_requests' = DOMAIN quote_requests \cup {cret'[c].id}
                  /\ quote_requests'[cret'[c].id].status = "pending"
                  /\ quote_requests'[cret'[c].id].from = cargs[c][1]
                  /\ quote_requests'[cret'[c].id].to = cargs[c][2]]_vars

\* The step is a direct call of op that returned no error.
Returned(op) ==
    /\ last'.n # last.n
    /\ last'.op = op
    /\ last'.err = "none"

\* C14: every state holds at most one Quote per pair, and an UpsertQuote
\* that succeeds on a pair that has a Quote adds no row, sets the rate of
\* that Quote to the rate written (as the column keeps it), and leaves its
\* id, its pair and its created_at, and every other Quote, as they are.
C14_OneQuotePerPairUpsertInPlace ==
    /\ [](\A from, to \in SupportedCurrencies :
             Cardinality(QuotesOfPair(from, to)) <= 1)
    /\ [][( /\ Returned("UpsertQuote")
            /\ QuotesOfPair(last'.from, last'.to) # {} )
          => /\ DOMAIN quotes' = DOMAIN quotes
             /\ \A q \in DOMAIN quotes :
                   IF q \in QuotesOfPair(last'.from, last'.to)
                   THEN /\ quotes'[q].from = quotes[q].from
                        /\ quotes'[q].to = quotes[q].to
                        /\ quotes'[q].created_at = quotes[q].created_at
                        /\ quotes'[q].rate = StoredRate(last'.rate)
                   ELSE quotes'[q] = quotes[q]]_vars

\* C14, its case: UpsertQuote has just written 18.5 over the Quote of a pair
\* that was created earlier, while another pair has its own Quote.
C14_Witness ==
    /\ last.op = "UpsertQuote"
    /\ last.err = "none"
    /\ last.rate = Rat(37, 2)
    /\ Cardinality(DOMAIN quotes) = 2
    /\ \E q \in QuotesOfPair(last.from, last.to) :
          /\ quotes[q].updated_at > quotes[q].created_at
          /\ quotes[q].rate = StoredRate(Rat(37, 2))

\* CalculateExchangeRate has returned for a table that holds both codes.
ReturnedForKnownCodes ==
    /\ exchange.returned
    /\ exchange.from \in DOMAIN exchange.usdRates
    /\ exchange.to \in DOMAIN exchange.usdRates

\* C15: for a table that holds a and b, CalculateExchangeRate(a, b, table)
\* returns no error and table[b]/table[a] when neither code is USD, table[b]
\* when a is USD, and 1/table[a] when b is USD (and a is not).
C15_CrossRateFormula ==
    ReturnedForKnownCodes
    => LET a  == exchange.from
           b  == exchange.to
           ra == exchange.usdRates[a]
           rb == exchange.usdRates[b]
       IN  /\ ~exchange.err
           /\ (a # USD /\ b # USD) => exchange.rate = FloatDiv(rb, ra)
           /\ a = USD => exchange.rate = rb
           /\ (b = USD /\ a # USD) => exchange.rate = FloatDiv(One, ra)

\* C15, its case: EUR to MXN on a table with EUR at 0.85 and MXN at 18.5
\* has returned 18.5/0.85.
C15_Witness ==
    /\ ReturnedForKnownCodes
    /\ exchange.from = EUR
    /\ exchange.to = MXN
    /\ exchange.usdRates[EUR] = Rat(17, 20)
    /\ exchange.usdRates[MXN] = Rat(37, 2)
    /\ exchange.rate = Rat(370, 17)

\* C16: for a code c the table holds, whatever its rate,
\* CalculateExchangeRate(c, c, table) returns no error and 1.0.
C16_SameCurrencyIsOne ==
    (ReturnedForKnownCodes /\ exchange.from = exchange.to)
    => /\ ~exchange.err
       /\ exchange.rate = One

\* C17: when the table lacks from or to, the empty table included,
\* CalculateExchangeRate returns an error and the zero value, not a rate.
C17_UnknownCurrencyFails ==
    ( /\ exchange.returned
      /\ \/ exchange.from \notin DOMAIN exchange.usdRates
         \/ exchange.to \notin DOMAIN exchange.usdRates )
    => /\ exchange.err
       /\ exchange.rate = <<0, 1>>

\* C17, its case: the call has returned an error for the table of no code.
C17_Witness ==
    /\ exchange.returned
    /\ DOMAIN exchange.usdRates = {}
    /\ exchange.err

\* The step is a direct call of op that no database error touched.
CalledWithoutFault(op) ==
    /\ last'.n # last.n
    /\ last'.op = op
    /\ faults' = faults

\* C18: UpdateQuoteRequestStatus(id, status) returns a not-found error and
\* leaves the requests as they are when no request has the id, and for a
\* known id sets the status of that request whatever it was.
C18_UpdateStatusNotFoundOrOverwrite ==
    [][CalledWithoutFault("UpdateQuoteRequestStatus")
       => IF last'.id \in DOMAIN quote_requests
          THEN /\ last'.err = "none"
               /\ quote_requests'[last'.id].status = last'.status
          ELSE /\ last'.err = "not_found"
               /\ quote_requests' = quote_requests]_vars

\* C19: GetQuoteRequest(id) returns a not-found error when no request has
\* the id, GetQuote(from, to) returns a not-found error when the pair has no
\* Quote, and neither call changes a request or a Quote.
C19_LookupsNotFoundAndReadOnly ==
    [][/\ ( /\ CalledWithoutFault("GetQuoteRequest")
            /\ last'.id \notin DOMAIN quote_requests )
          => last'.err = "not_found"
       /\ ( /\ CalledWithoutFault("GetQuote")
            /\ QuotesOfPair(last'.from, last'.to) = {} )
          => last'.err = "not_found"
       /\ ( /\ last'.n # last.n
            /\ last'.op \in {"GetQuoteRequest", "GetQuote"} )
          => /\ quote_requests' = quote_requests
             /\ quotes' = quotes]_vars

\* C19, its case: GetQuote has returned not found for a pair that has no
\* Quote, in a store that holds a request and the Quote of another pair.
C19_Witness ==
    /\ last.op = "GetQuote"
    /\ last.err = "not_found"
    /\ QuotesOfPair(last.from, last.to) = {}
    /\ DOMAIN quotes # {}
    /\ DOMAIN quote_requests # {}

\* C20: GetPendingQuoteRequests returns each request that is pending when
\* it is called once, returns no other request, and returns them with
\* created_at ascending.
C20_ListPendingOldestFirst ==
    [][CalledWithoutFault("GetPendingQuoteRequests")
       => LET out == last'.out
          IN  /\ last'.err = "none"
              /\ {out[k] : k \in 1..Len(out)} =
                     {id \in DOMAIN quote_requests :
                         quote_requests[id].status = "pending"}
              /\ \A j, k \in 1..Len(out) : j # k => out[j] # out[k]
              /\ \A j, k \in 1..Len(out) :
                    j < k => quote_requests[out[j]].created_at
                                 <= quote_requests[out[k]].created_at]_vars

\* C20, its case: the call has returned the two pending requests of a store,
\* the older one first.
C20_Witness ==
    /\ last.op = "GetPendingQuoteRequests"
    /\ last.err = "none"
    /\ Len(last.out) = 2
    /\ quote_requests[last.out[1]].created_at < quote_requests[last.out[2]].created_at

\* C21: whenever a successful upstream response reaches the Rate Source, the
\* call made by the cycle ends with a rate table that maps USD to exactly
\* 1.0 (or, for a failed upstream, with an error): the step that leaves the
\* Rate Source call hands the cycle an error or a table with USD = 1.0.
C21_SuccessMapsUsdToOne ==
    [][\A t \in Threads :
          (wpc[t] = "fetch" /\ wpc'[t] # "fetch")
          => \/ usdRates'[t].err
             \/ /\ wpc'[t] = "range"
                /\ USD \in DOMAIN usdRates'[t].rates
                /\ usdRates'[t].rates[USD] = One]_vars

\* C22: a call of Stop on a started worker eventually returns: a caller that
\* waits in the send on w.done is eventually received from (the process
\* ending by a panic aside).
C22_StopEventuallyReturns ==
    \A s \in Stoppers :
        (spc[s] = "send" /\ Started) ~> (spc[s] = "returned" \/ Crashed)

\* Stop was called or ctx was cancelled.
ShutdownAsked == ctxDone \/ \E s \in Stoppers : spc[s] # "idle"

\* C23: a cycle in flight at shutdown runs to its end and resolves what it
\* moved to processing: once Stop was called or ctx cancelled and both
\* goroutines of the worker have ended, no request is in processing.
C23_ShutdownLeavesNoProcessing ==
    (ShutdownAsked /\ \A t \in Threads : wpc[t] = "exited")
    => \A id \in DOMAIN quote_requests :
          quote_requests[id].status # "processing"

\* C24: no failure inside a cycle is swallowed.  processPendingRequests has
\* no return value, so a cycle surfaces no error to its caller; hence at the
\* end of a cycle that runs with no other cycle in flight every request it
\* discovered has a terminal status, whatever failed on the way.
C24_NoSwallowedFailure ==
    [][\A t \in Threads :
          (/\ wpc[t] # "return"
           /\ wpc'[t] = "return"
           /\ \A u \in Threads \ {t} : ~InCycle(u))
          => \A r \in Discovered(t) :
                quote_requests'[r.ID].status \in Terminal]_vars

\* C25: Start spawns the first cycle at once and that cycle can begin
\* whether or not a tick has fired; afterwards the loop begins a cycle
\* exactly by taking a tick from w.ticker.C, and a tick delivered to
\* w.ticker.C can be taken whenever the loop waits in its select.
C25_FirstCycleAtOnceThenOnePerTick ==
    /\ [][(~Started /\ Started') => wpc'["first"] = "ready"]_vars
    /\ [](wpc["first"] = "ready" => ENABLED FirstRun)
    /\ [][(wpc["loop"] = "select" /\ wpc'["loop"] = "list")
           <=> (tickerC = 1 /\ tickerC' = 0)]_vars
    /\ []((tickerC = 1 /\ wpc["loop"] = "select") => ENABLED LoopTick)

\* The first cycle has ended and the loop runs the cycle of the second tick.
C25_Witness ==
    /\ wpc["first"] = "exited"
    /\ ticks = MaxTicksShutdown
    /\ tickerC = 0
    /\ InCycle("loop")

\* The handler has written its answer to the request in http.
Answered(op) == http.op = op /\ http.pc = "idle" /\ http.code # 0

\* C26: GetQuoteByID calls GetQuote only for a request it read as
\* completed: for a request in pending, processing or failed it answers 400
\* and for an unknown id 404, both without a call of GetQuote.
C26_QuoteReadOnlyWhenCompleted ==
    /\ [](http.op = "GetQuoteByID" /\ http.pc = "getQuote"
             => http.status = "completed")
    /\ [](Answered("GetQuoteByID") /\ http.calls = <<"GetQuoteRequest", "GetQuote">>
             => http.status = "completed")
    /\ [][\A id \in DOMAIN quote_requests \cup {NoSuchID} :
            (http' # http /\ http'.op = "GetQuoteByID" /\ http'.id = id
             /\ http'.calls = <<"GetQuoteRequest">> /\ http'.err # "db_error")
            => IF id \notin DOMAIN quote_requests
               THEN http'.code = 404
               ELSE IF quote_requests[id].status \in {"pending", "processing", "failed"}
               THEN http'.code = 400 /\ http'.status = quote_requests[id].status
               ELSE http'.pc = "getQuote"]_vars

\* GetQuoteByID has answered 400 for a request in processing and has not
\* called GetQuote.
C26_Witness ==
    /\ Answered("GetQuoteByID")
    /\ http.status = "processing"
    /\ http.code = 400
    /\ http.calls = <<"GetQuoteRequest">>

\* C27: UpdateQuote answers 400 to a request whose from or to is empty,
\* whose from equals to, or whose from or to is not a supported currency,
\* and calls no method of the store for it; no row of quote_requests has
\* from = to or an unsupported currency.
C27_InvalidPairRejectedBeforeStore ==
    /\ [](\A id \in DOMAIN quote_requests :
             /\ quote_requests[id].from # quote_requests[id].to
             /\ quote_requests[id].from \in SupportedCurrencies
             /\ quote_requests[id].to \in SupportedCurrencies)
    /\ [][(/\ http.pc = "idle"
           /\ http' # http
           /\ http'.op = "UpdateQuote"
           /\ \/ http'.reqFrom = <<>>
              \/ http'.reqTo = <<>>
              \/ Normalize(http'.reqFrom) = Normalize(http'.reqTo)
              \/ Normalize(http'.reqFrom) \notin SupportedCurrencies
              \/ Normalize(http'.reqTo) \notin SupportedCurrencies)
          => /\ http'.code = 400
             /\ http'.calls = <<>>
             /\ UNCHANGED <<storeVars, clientVars>>]_vars

\* UpdateQuote has refused " eur" to "EUR", the same currency once
\* normalised, and the store holds no request.
C27_Witness ==
    /\ Answered("UpdateQuote")
    /\ http.reqFrom = <<" ", "e", "u", "r">>
    /\ http.reqTo = <<"E", "U", "R">>
    /\ http.code = 400
    /\ quote_requests = <<>>

\* C28: a read that misses is answered not-found: GetLatestQuote with no
\* Quote for the pair and GetQuoteByID with an unknown id answer 404 when
\* the store did not fail, and a read handler answers 500 only at a step
\* where a statement of the store failed.
C28_LookupMissIsNotFound ==
    [][(http' # http /\ http'.pc = "idle" /\ http'.code # 0)
       => /\ (/\ http'.op = "GetLatestQuote"
              /\ http'.calls = <<"GetQuote">>
              /\ QuotesOfPair(http'.from, http'.to) = {}
              /\ faults' = faults)
             => http'.code = 404
          /\ (/\ http'.op = "GetQuoteByID"
              /\ http'.calls = <<"GetQuoteRequest">>
              /\ http'.id \notin DOMAIN quote_requests
              /\ faults' = faults)
             => http'.code = 404
          /\ (http'.op \in {"GetLatestQuote", "GetQuoteByID"} /\ http'.code = 500)
             => faults' = faults + 1]_vars

\* GetLatestQuote has answered 404 for EUR to MXN, a pair with no Quote.
C28_Witness ==
    /\ Answered("GetLatestQuote")
    /\ http.from = EUR
    /\ http.to = MXN
    /\ QuotesOfPair(EUR, MXN) = {}
    /\ http.err = "not_found"
    /\ http.code = 404

\* C29: a cycle run after a cycle has returned has nothing to do for what
\* that cycle discovered: its listing holds no request that a returned
\* cycle discovered, so with no request created since it lists nothing,
\* and makes no Rate Source call, status write or upsert.
C29_RerunFindsNothingOfFinishedCycle ==
    [][\A t \in Threads :
          (wpc[t] = "list" /\ wpc'[t] \in {"fetch", "return"})
          => \A k \in 1..Len(requests'[t]) : requests'[t][k].ID \notin finished]_vars

\* The ids of the requests goroutine t discovered.
DiscoveredIDs(t) == {r.ID : r \in Discovered(t)}

\* The pairs of the requests goroutine t discovered.
DiscoveredPairs(t) == {<<r.From, r.To>> : r \in Discovered(t)}

\* C30: a step of a cycle creates and deletes no request, leaves from, to
\* and created_at of every request alone, changes only requests the cycle
\* discovered, changes the quotes only by the upsert of a pair of a
\* discovered request, a pair it visits once, and the cycle makes at most
\* one Rate Source call.
C30_CycleFrame ==
    [][\A t \in Threads :
          (InCycle(t) /\ StepOf(t))
          => /\ DOMAIN quote_requests' = DOMAIN quote_requests
             /\ \A id \in DOMAIN quote_requests :
                   /\ quote_requests'[id].from = quote_requests[id].from
                   /\ quote_requests'[id].to = quote_requests[id].to
                   /\ quote_requests'[id].created_at = quote_requests[id].created_at
                   /\ quote_requests'[id] # quote_requests[id] => id \in DiscoveredIDs(t)
             /\ quotes' # quotes
                => /\ wpc[t] = "upsert"
                   /\ pair[t] \in DiscoveredPairs(t)
                   /\ pair[t] \notin currencyPairMap[t]
                   /\ DOMAIN quotes \subseteq DOMAIN quotes'
                   /\ \A q \in DOMAIN quotes :
                         quotes'[q] # quotes[q]
                         => <<quotes[q].from, quotes[q].to>> = pair[t]
                   /\ \A q \in DOMAIN quotes' \ DOMAIN quotes :
                         <<quotes'[q].from, quotes'[q].to>> = pair[t]
             /\ wpc[t] \notin {"list", "fetch"}
                => currencyPairMap'[t] \subseteq currencyPairMap[t]
             /\ Len(rateCalls'[t]) <= 1]_vars

\* A cycle that discovered requests of two pairs has upserted a Quote for
\* each and is at its end.
C30_Witness ==
    \E t \in Threads :
        /\ wpc[t] = "return"
        /\ Cardinality(DiscoveredPairs(t)) = 2
        /\ \A p \in DiscoveredPairs(t) : QuotesOfPair(p[1], p[2]) # {}
        /\ \A id \in DiscoveredIDs(t) : quote_requests[id].status = "completed"


(***************************************************************************)
(* SpecRates: one caller and the first run, with a Rate Source that may    *)
(* report a zero or a negative number for a currency.                      *)
(***************************************************************************)
NextRates ==
    \/ CallAlone
    \/ Start
    \/ FirstRun
    \/ ListPending("first")
    \/ FetchAnyRates("first")
    \/ markAllRequestsAsFailed("first")
    \/ RangePairs("first")
    \/ MarkProcessing("first")
    \/ CalculateAndUpsert("first")
    \/ MarkFailed("first")
    \/ MarkCompleted("first")
    \/ ReturnFromCycle("first")

SpecRates == Init /\ [][NextRates]_vars

\* The rate column holds a number above zero.
PositiveRate(stored) ==
    /\ ~stored.nan
    /\ ~stored.neg
    /\ stored.whole > 0 \/ stored.frac > 0

\* C31: every Quote held by the store has a rate above zero, whatever table
\* the Rate Source returned.
C31_StoredRatePositive ==
    \A q \in DOMAIN quotes : PositiveRate(quotes[q].rate)

\* The status changes of the lifecycle: pending to processing, processing to
\* completed or failed, and pending to failed when written by a cycle whose
\* Rate Source call failed.
Lifecycle(old, new, rateFailure) ==
    \/ old = "pending" /\ new = "processing"
    \/ old = "processing" /\ new \in Terminal
    \/ old = "pending" /\ new = "failed" /\ rateFailure

\* C32: a request is created pending, and every step that changes the status
\* of a request changes it along the lifecycle; no step sets a status back to
\* pending.
C32_StatusFollowsLifecycle ==
    [][/\ \A id \in DOMAIN quote_requests' \ DOMAIN quote_requests :
             quote_requests'[id].status = "pending"
       /\ \A id \in DOMAIN quote_requests :
             quote_requests'[id].status # quote_requests[id].status
             => Lifecycle(quote_requests[id].status, quote_requests'[id].status,
                          \E t \in Threads : StepOf(t) /\ usdRates[t].err)]_vars

(***************************************************************************)
(* SpecTimeout: one caller and the first run, with a Rate Source that may  *)
(* leave a request without any response.                                   *)
(***************************************************************************)
\* cfg.Timeout of the http.Client, in seconds: EXTERNAL_API_TIMEOUT, 10s by
\* default.  A Timeout of zero means no timeout.
Timeout == 10

\* c.httpClient.Do(req) has sent the request and no response comes: the
\* goroutine waits inside Do.
HttpDoHangs(t) ==
    /\ wpc[t] = "fetch"
    /\ wpc' = [wpc EXCEPT ![t] = "do"]
    /\ UNCHANGED <<storeVars, clientVars, cycleVars, schedVars, last, exchange, http>>

\* The timer of the http.Client fires: Do returns an error, and so does
\* GetMultipleExchangeRates ("failed to make request").
ClientTimeout(t) ==
    /\ wpc[t] = "do"
    /\ Timeout > 0
    /\ usdRates' = [usdRates EXCEPT ![t] = [err |-> TRUE, rates |-> <<>>]]
    /\ wpc' = [wpc EXCEPT ![t] = "markfailed"]
    /\ idx' = [idx EXCEPT ![t] = 1]
    /\ rateCalls' = [rateCalls EXCEPT ![t] =
                        Append(@, extractUniqueCurrencies(requests[t]))]
    /\ UNCHANGED <<storeVars, clientVars, requests, currencyPairMap, pair,
                   upsertFailed, finished, listErr, schedVars, last, exchange, http>>

NextTimeout ==
    \/ CallAlone
    \/ Start
    \/ FirstRun
    \/ Cycle("first")
    \/ HttpDoHangs("first")
    \/ ClientTimeout("first")

\* The goroutine of the first run takes its next step when it can, and the
\* timer of a waiting call fires.
SpecTimeout ==
    /\ Init
    /\ [][NextTimeout]_vars
    /\ WF_vars(FirstRunGoroutine)
    /\ WF_vars(ClientTimeout("first"))

\* C33: a Rate Source call that gets no response leads to the end of its
\* cycle with every request the cycle discovered failed.
C33_HangingCallEndsInFailed ==
    (wpc["first"] = "do")
        ~> ( /\ wpc["first"] = "return"
             /\ \A r \in Discovered("first") :
                   quote_requests[r.ID].status = "failed" )

\* The cycle of a call that gets no response comes to its end.
HangingCallEnds == (wpc["first"] = "do") ~> (wpc["first"] = "return")

(***************************************************************************)
(* SpecPickup: the first run, a caller that creates the first request, and *)
(* callers who ask for a pair once a cycle has picked up a request of it.  *)
(***************************************************************************)
\* The requests the callers of SpecPickup may create in all.
MaxRequests == 2

\* A request of the pair has left pending.
PickedUp(from, to) ==
    \E id \in DOMAIN quote_requests :
        /\ quote_requests[id].from = from
        /\ quote_requests[id].to = to
        /\ quote_requests[id].status # "pending"

\* The first call of all, on the empty store.
FirstCall ==
    /\ quote_requests = <<>>
    /\ \E p \in RequestPairs : GetPendingQuoteRequestByPair(1, p[1], p[2])
    /\ UNCHANGED http

\* A call that begins after a request of its pair was picked up.
SubsequentCall(c) ==
    /\ \E p \in RequestPairs :
          /\ PickedUp(p[1], p[2])
          /\ GetPendingQuoteRequestByPair(c, p[1], p[2])
    /\ UNCHANGED http

\* A caller whose call returned is free to call again.
CallAgain(c) ==
    /\ cpc[c] = "done"
    /\ Cardinality(DOMAIN quote_requests) < MaxRequests
    /\ cpc' = [cpc EXCEPT ![c] = "idle"]
    /\ UNCHANGED <<storeVars, cargs, existingRequest, cret, wpc, cycleVars,
                   schedVars, last, exchange, http>>

NextPickup ==
    \/ FirstCall
    \/ \E c \in Clients : SubsequentCall(c)
    \/ \E c \in Clients : RefreshExisting(c)
    \/ \E c \in Clients : CreateQuoteRequest(c)
    \/ \E c \in Clients : CallAgain(c)
    \/ Start
    \/ FirstRun
    \/ Cycle("first")

SpecPickup == Init /\ [][NextPickup]_vars

\* C34: a call that began after a request of its pair was picked up, found
\* no pending request of the pair and met no database error adds one row,
\* pending, of the pair and with an id no request had, returns it, and leaves
\* every earlier request as it was.
C34_NewRequestAfterPickup ==
    [][\A c \in Clients :
          ( /\ cpc[c] = "create"
            /\ cpc'[c] = "done"
            /\ existingRequest[c] = 0
            /\ faults = 0 /\ faults' = 0
            /\ PickedUp(cargs[c][1], cargs[c][2]) )
          => /\ cret'[c].err = "none"
             /\ cret'[c].id \notin DOMAIN quote_requests
             /\ DOMAIN quote_requests' = DOMAIN quote_requests \cup {cret'[c].id}
             /\ quote_requests'[cret'[c].id].status = "pending"
             /\ quote_requests'[cret'[c].id].from = cargs[c][1]
             /\ quote_requests'[cret'[c].id].to = cargs[c][2]
             /\ \A id \in DOMAIN quote_requests :
                   quote_requests'[id] = quote_requests[id]]_vars

\* C35: a request that is completed has a Quote of its pair in the store.
C35_CompletedHasQuote ==
    \A id \in DOMAIN quote_requests :
        quote_requests[id].status = "completed"
        => QuotesOfPair(quote_requests[id].from, quote_requests[id].to) # {}

\* C35, its case: of two groups of one cycle, one was marked completed after
\* its upsert and the upsert of the other failed.
C35_Witness ==
    \E t \in Threads :
        /\ wpc[t] = "return"
        /\ upsertFailed[t] # {}
        /\ \E r \in Discovered(t) :
              /\ quote_requests[r.ID].status = "completed"
              /\ QuotesOfPair(r.From, r.To) # {}
        /\ \E r \in Discovered(t) :
              /\ <<r.From, r.To>> \in upsertFailed[t]
              /\ quote_requests[r.ID].status = "failed"
              /\ QuotesOfPair(r.From, r.To) = {}

(***************************************************************************)
(* SpecLive: one caller and the worker running without a shutdown, where   *)
(* Start is called, every goroutine of the worker takes its next step when *)
(* one is possible, and the ticker fires while it may.                     *)
(***************************************************************************)
NextLive == CallAlone \/ Run(MaxTicks)

SpecLive ==
    /\ Init
    /\ [][NextLive]_vars
    /\ WF_vars(Start)
    /\ WF_vars(FirstRunGoroutine)
    /\ WF_vars(LoopGoroutine)
    /\ WF_vars(Tick(MaxTicks))

\* A cycle is still to take its listing: the first run has not listed, or a
\* tick is still to fire or to be taken by the loop.
CycleAhead ==
    \/ wpc["first"] \in {"unspawned", "ready", "list"}
    \/ wpc["loop"] = "list"
    \/ tickerC = 1 /\ wpc["loop"] # "exited"
    \/ ticks < MaxTicks /\ ~tickerStopped

\* Request id exists with a status of S.
StatusIn(id, S) ==
    id \in DOMAIN quote_requests /\ quote_requests[id].status \in S

\* C36: while no database error occurs, a pending request that a cycle is
\* still to list is eventually completed or failed.
C36_PendingEventuallyResolved ==
    \A id \in 1..MaxRequests :
        ( /\ StatusIn(id, {"pending"})
          /\ CycleAhead
          /\ ~Crashed )
        ~> ( \/ faults > 0
             \/ StatusIn(id, Terminal) )

\* The same, a crash of the process aside.
ResolvedUnlessCrashed ==
    \A id \in 1..MaxRequests :
        ( /\ StatusIn(id, {"pending"})
          /\ CycleAhead )
        ~> ( \/ faults > 0
             \/ Crashed
             \/ StatusIn(id, Terminal) )

\* The requests some cycle has listed: those of the cycles in flight and
\* those of the cycles that returned.
DiscoveredByACycle == finished \cup UNION {DiscoveredIDs(t) : t \in Threads}

\* C37: a request that no cycle has listed is pending, and every step that
\* changes the status of a request is the step of a cycle that listed it: a
\* request created after the listing of a cycle stays pending until a cycle
\* lists it.
C37_UnlistedRequestStaysPending ==
    /\ [](\A id \in DOMAIN quote_requests :
             id \notin DiscoveredByACycle => quote_requests[id].status = "pending")
    /\ [][\A id \in DOMAIN quote_requests :
             quote_requests'[id].status # quote_requests[id].status
             => \E t \in Threads :
                   InCycle(t) /\ StepOf(t) /\ id \in DiscoveredIDs(t)]_vars

\* C37, its case: a cycle is at its end and has resolved the request it
\* listed for a pair, and a request of the same pair, created after the
\* listing and listed by no cycle, is pending.
C37_Witness ==
    \E t \in Threads :
        /\ wpc[t] = "return"
        /\ \E r \in Discovered(t) :
              /\ quote_requests[r.ID].status \in Terminal
              /\ \E id \in DOMAIN quote_requests \ DiscoveredByACycle :
                    /\ quote_requests[id].from = r.From
                    /\ quote_requests[id].to = r.To
                    /\ quote_requests[id].status = "pending"
                    /\ quote_requests[id].created_at > quote_requests[r.ID].created_at

\* C38: the requests a cycle discovered have pairs that differ from one
\* another, so every group the cycle forms holds one request.
C38_OneRequestPerGroup ==
    \A t \in Threads :
        /\ \A j, k \in 1..Len(requests[t]) :
              ( /\ requests[t][j].From = requests[t][k].From
                /\ requests[t][j].To = requests[t][k].To ) => j = k
        /\ pair[t] # NoPair => Len(GroupOf(t)) = 1

\* C38, its case: a cycle works on the group of a pair, one request, while a
\* second request of that pair, created after the listing, is pending in the
\* store.
C38_Witness ==
    \E t \in Threads :
        /\ pair[t] # NoPair
        /\ Len(GroupOf(t)) = 1
        /\ \E id \in PendingByPair(pair[t][1], pair[t][2]) : id \notin DiscoveredIDs(t)

\* C39: a cycle whose listing failed holds no request, has made no Rate
\* Source call and is at its end; its steps, the failed listing and the
\* return, leave the requests and the Quotes as they are.
C39_FailedListingEndsCycle ==
    /\ [](\A t \in Threads :
             listErr[t] => /\ wpc[t] \in {"return", "panic"}
                           /\ requests[t] = <<>>
                           /\ rateCalls[t] = <<>>)
    /\ [][\A t \in Threads :
             (StepOf(t) /\ (listErr[t] \/ listErr'[t]))
             => /\ quote_requests' = quote_requests
                /\ quotes' = quotes
                /\ listErr[t] => ~InCycle(t)']_vars

\* C39, its case: the listing of a cycle failed, the cycle is at its return,
\* no other cycle is in flight, and a request is pending in the store.
C39_Witness ==
    \E t \in Threads :
        /\ listErr[t]
        /\ wpc[t] = "return"
        /\ \A u \in Threads \ {t} : ~InCycle(u)
        /\ \E id \in DOMAIN quote_requests : quote_requests[id].status = "pending"

=============================================================================
